---- MODULE Spec2Model ----
(***************************************************************************)
(* A model of the scan-extract-cache pipeline of MetaSortX: main.py        *)
(* (discovery, per-document extraction, batch scan, fingerprint store) and *)
(* data_io.py (dual-format persistence), and of the usage gate of          *)
(* sys_cache.py.                                                           *)
(*                                                                         *)
(* Text is modelled as sequences of one-character strings, so that the     *)
(* string operations of the code (lower, endswith, sorted, str, int,       *)
(* concatenation) are computed, not assumed.                               *)
(***************************************************************************)
EXTENDS Integers, Sequences, FiniteSets, TLC

\* ------------------------------------------------------------------ bounds

\* Largest number of entries one directory listing holds.
MaxFilesPerDir == 2
\* Largest number of rows of a catalog found at a location; save_data is
\* given catalogs of up to one row more.
MaxRows == 1
\* The modification times of a file run over 0 .. MaxTicks clock ticks.
MaxTicks == 5
\* The byte sizes of a file run over 0 .. MaxSize.
MaxSize == 11
\* The clock ticks that make one second of st_mtime.
TicksPerSecond == 2

\* -------------------------------------------------------------------- text

\* The letters and digits, in code-point order.
UpperLetters ==
  <<"A", "B", "C", "D", "E", "F", "G", "H", "I", "J", "K", "L", "M", "N", "O",
    "P", "Q", "R", "S", "T", "U", "V", "W", "X", "Y", "Z">>
LowerLetters ==
  <<"a", "b", "c", "d", "e", "f", "g", "h", "i", "j", "k", "l", "m", "n", "o",
    "p", "q", "r", "s", "t", "u", "v", "w", "x", "y", "z">>
Digits == <<"0", "1", "2", "3", "4", "5", "6", "7", "8", "9">>

\* The place of an element in a sequence without repeats, 0 if it is not there.
IndexOf(c, seq) ==
  IF \E k \in DOMAIN seq : seq[k] = c
  THEN CHOOSE k \in DOMAIN seq : seq[k] = c ELSE 0

\* The code points of the characters the model uses.
CodePoints ==
  [c \in {UpperLetters[k] : k \in DOMAIN UpperLetters} |->
     64 + IndexOf(c, UpperLetters)]
  @@ [c \in {LowerLetters[k] : k \in DOMAIN LowerLetters} |->
        96 + IndexOf(c, LowerLetters)]
  @@ [c \in {Digits[k] : k \in DOMAIN Digits} |-> 47 + IndexOf(c, Digits)]
  @@ ("\n" :> 10) @@ (" " :> 32) @@ ("," :> 44) @@ ("-" :> 45)
  @@ ("." :> 46) @@ ("/" :> 47) @@ (":" :> 58) @@ (";" :> 59) @@ ("_" :> 95)

\* ord(c)
Ord(c) == CodePoints[c]

\* The lower-case letter of each upper-case letter, and the other way.
LowerOf ==
  [c \in {UpperLetters[k] : k \in DOMAIN UpperLetters} |->
     LowerLetters[IndexOf(c, UpperLetters)]]
UpperOf ==
  [c \in {LowerLetters[k] : k \in DOMAIN LowerLetters} |->
     UpperLetters[IndexOf(c, LowerLetters)]]

\* str.lower() on one character.
LowerChar(c) == IF c \in DOMAIN LowerOf THEN LowerOf[c] ELSE c

\* str.lower()
Lower(s) == [i \in DOMAIN s |-> LowerChar(s[i])]

\* str.endswith(suffix)
EndsWith(s, suffix) ==
  /\ Len(s) >= Len(suffix)
  /\ SubSeq(s, Len(s) - Len(suffix) + 1, Len(s)) = suffix

\* The document extension tested by find_pdfs_to_process and process_pdf.
PdfExt == <<".", "p", "d", "f">>

\* s < t for Python strings: by code point, a proper prefix first.
RECURSIVE StrLess(_, _)
StrLess(s, t) ==
  IF t = <<>> THEN FALSE
  ELSE IF s = <<>> THEN TRUE
  ELSE IF Ord(Head(s)) # Ord(Head(t)) THEN Ord(Head(s)) < Ord(Head(t))
  ELSE StrLess(Tail(s), Tail(t))

\* One element put in its place in an ascending list.
RECURSIVE Insert(_, _)
Insert(x, sorted) ==
  IF sorted = <<>> THEN <<x>>
  ELSE IF StrLess(x, Head(sorted)) THEN <<x>> \o sorted
  ELSE <<Head(sorted)>> \o Insert(x, Tail(sorted))

\* The listing taken as the operating system gives it, with no sorted().
UnsortedFiles(files) == files

\* sorted(files): the names in ascending order.
RECURSIVE SortedFiles(_)
SortedFiles(files) ==
  IF files = <<>> THEN <<>>
  ELSE Insert(Head(files), SortedFiles(Tail(files)))

\* One decimal digit as a character.
Digit(d) == Digits[d + 1]

\* str(n) for a non-negative integer.
RECURSIVE Dec(_)
Dec(n) == IF n < 10 THEN <<Digit(n)>> ELSE Dec(n \div 10) \o <<Digit(n % 10)>>

\* ------------------------------------------------------------------ state

VARIABLES
  tree,        \* what os.walk(folder) yields: <<[dirpath, files]>>, the root first
  files,       \* full path of a document -> [state, size, mtime] on disk
  cacheFile,   \* last_scanned.json: [state, rows], rows the set of its entries
  featherFile, \* <folder>/Books_Data.feather: [state, rows]
  csvFile,     \* <folder>/Books_Data.csv: [state, rows]
  exportFile,  \* Books_Data.csv of the working directory: [state, rows]
  pc,          \* where start_scan is
  cache,       \* what load_cache returned: [kind, data]
  jobs,        \* the job list of find_pdfs_to_process
  i,           \* the loop counter of start_scan (enumerate from 1)
  processed,   \* the rows collected so far
  new_cache,   \* the fingerprints collected so far
  progress,    \* the calls made to on_progress, in order
  errlog,      \* pdf_errors.log, in order
  result,      \* what start_scan returned or raised
  opened,      \* the indexes of the jobs whose fitz.open succeeded
  scanned,     \* one file's stat and fingerprint at each scan of it, in order
  saved,       \* the last call of save_data: its catalog and how it ended
  loaded,      \* what the last call of load_data returned or raised
  document,    \* the document one extraction is run on
  stages,      \* how the stages of that extraction went
  extracted,   \* what that extraction returned and logged
  usageFile,   \* test_counter.tmp: [state, content]
  usage        \* the calls of check_usage so far: how many, how many let through

vars == <<tree, files, cacheFile, featherFile, csvFile, exportFile, pc, cache,
          jobs, i, processed, new_cache, progress, errlog, result, opened,
          scanned, saved, loaded, document, stages, extracted, usageFile, usage>>

\* The variables only the extraction and the usage-gate runs change.
gateVars == <<document, stages, extracted, usageFile, usage>>

\* The variables only the fingerprint and the persistence runs change.
sideVars == <<scanned, saved, loaded>>

\* -------------------------------------------------------------- file names

NameA == <<"a", ".", "p", "d", "f">>
NameB == <<"B", ".", "P", "D", "F">>
NameT == <<"a", ".", "t", "x", "t">>
NameDot == <<".", "p", "d", "f">>

\* The names a directory entry is drawn from.
FileNames == {NameA, NameB, NameT, NameDot}

\* The path of the scanned folder and of its subdirectories, as components.
RootPath == << <<"T">> >>
SubA == RootPath \o << <<"A">> >>
SubB == RootPath \o << <<"B">> >>

\* The listings a directory can have: distinct names in the order the
\* operating system gives them, which is any order.
Listings ==
  UNION {{l \in [1..n -> FileNames] : \A j, k \in 1..n : j # k => l[j] # l[k]}
         : n \in 0..MaxFilesPerDir}

\* ---------------------------------------------------------------- discovery

\* os.path.join(dirpath, file)
PathJoin(dirpath, file) == dirpath \o <<file>>

\* os.path.relpath(full_path, root), for a path under root.
RelPath(full_path, root) == SubSeq(full_path, Len(root) + 1, Len(full_path))

\* os.path.basename(path), and path.split(os.sep)[-1]
BaseName(path) == path[Len(path)]

\* file.lower().endswith('.pdf')
IsPdfName(file) == EndsWith(Lower(file), PdfExt)

\* The inner loop of find_pdfs_to_process over one directory's sorted files,
\* the counter starting at index.
RECURSIVE JobsOfFiles(_, _, _, _)
JobsOfFiles(root, dirpath, sortedFiles, index) ==
  IF sortedFiles = <<>> THEN <<>>
  ELSE LET file == Head(sortedFiles)
           full_path == PathJoin(dirpath, file)
       IN IF IsPdfName(file)
          THEN <<[index |-> index, full_path |-> full_path,
                  rel_path |-> RelPath(full_path, root)]>>
               \o JobsOfFiles(root, dirpath, Tail(sortedFiles), index + 1)
          ELSE JobsOfFiles(root, dirpath, Tail(sortedFiles), index)

\* The outer loop of find_pdfs_to_process over what os.walk yields.
RECURSIVE JobsOfWalk(_, _, _)
JobsOfWalk(root, walk, index) ==
  IF walk = <<>> THEN <<>>
  ELSE LET here == JobsOfFiles(root, Head(walk).dirpath,
                               SortedFiles(Head(walk).files), index)
       IN here \o JobsOfWalk(root, Tail(walk), index + Len(here))

\* find_pdfs_to_process(root, cache): the cache is not read.
find_pdfs_to_process(root, cacheArg) == JobsOfWalk(root, tree, 1)

\* -------------------------------------------------------------- fingerprint

\* int(stat.st_mtime): st_mtime is mtime / TicksPerSecond seconds, and int()
\* drops the fraction.
IntMtime(mtime) == mtime \div TicksPerSecond

\* A fingerprint that leaves the byte size out.
FingerprintOfTime(name, size, mtime) ==
  name \o <<"_">> \o Dec(IntMtime(mtime))

\* f"{name}_{stat.st_size}_{int(stat.st_mtime)}"
Fingerprint(name, size, mtime) ==
  name \o <<"_">> \o Dec(size) \o <<"_">> \o Dec(IntMtime(mtime))

\* d[key] = value on a dict held as a set of entries.
DictPut(d, key, value) ==
  {e \in d : e.rel_path # key} \cup {[rel_path |-> key, fingerprint |-> value]}

\* -------------------------------------------------------------- title case

\* str.upper() on one character.
UpperChar(c) == IF c \in DOMAIN UpperOf THEN UpperOf[c] ELSE c

\* Whether a character is cased (a letter).
IsCased(c) == c \in DOMAIN LowerOf \/ c \in DOMAIN UpperOf

\* str.title() from a position on: a cased character is upper-cased after an
\* uncased one (or at the start) and lower-cased after a cased one.
RECURSIVE TitleFrom(_, _)
TitleFrom(s, afterCased) ==
  IF s = <<>> THEN <<>>
  ELSE <<IF afterCased THEN LowerChar(Head(s)) ELSE UpperChar(Head(s))>>
       \o TitleFrom(Tail(s), IsCased(Head(s)))

\* str.title()
Title(s) == TitleFrom(s, FALSE)

\* ------------------------------------------------------------------- text

\* A text written as a string, as the sequence of its characters.
RECURSIVE Chars(_)
Chars(str) ==
  IF Len(str) = 0 THEN <<>>
  ELSE <<SubSeq(str, 1, 1)>> \o Chars(SubSeq(str, 2, Len(str)))

\* A value that is None in Python, told apart from every text.
NoneValue == <<"None">>

IsLetter(c) == c \in DOMAIN LowerOf \/ c \in DOMAIN UpperOf
IsDigit(c) == c \in {"0", "1", "2", "3", "4", "5", "6", "7", "8", "9"}

\* str.upper()
Upper(s) == [k \in DOMAIN s |-> UpperChar(s[k])]

\* sep.join(parts)
RECURSIVE Join(_, _)
Join(parts, sep) ==
  IF parts = <<>> THEN <<>>
  ELSE IF Len(parts) = 1 THEN parts[1]
  ELSE parts[1] \o sep \o Join(Tail(parts), sep)

\* \s of a regular expression, for the characters the model uses.
IsSpace(c) == c \in {" ", "\n"}

\* text.split(): the runs of characters between the blanks.
RECURSIVE SplitFrom(_, _)
SplitFrom(text, word) ==
  IF text = <<>> THEN (IF word = <<>> THEN <<>> ELSE <<word>>)
  ELSE IF IsSpace(Head(text))
  THEN (IF word = <<>> THEN <<>> ELSE <<word>>) \o SplitFrom(Tail(text), <<>>)
  ELSE SplitFrom(Tail(text), Append(word, Head(text)))

Split(text) == SplitFrom(text, <<>>)

\* sub in text
Contains(text, sub) ==
  \E k \in 0..(Len(text) - Len(sub)) : SubSeq(text, k + 1, k + Len(sub)) = sub

\* re.sub(r'[^A-Za-z\s]', '', text): everything but letters and blanks goes.
LettersAndBlanks(text) ==
  SelectSeq(text, LAMBDA c : IsLetter(c) \/ IsSpace(c))

\* is_english(word): what the language detector answers for the word, False
\* when it raises. english is the set of words it takes for English.
is_english(word, english) == word \in english

\* clean_text(text) on one line of a page.
clean_text(text, english) ==
  LET words == Split(LettersAndBlanks(text))
      kept == SelectSeq(words, LAMBDA w : Len(w) > 2 /\ is_english(w, english))
  IN Title(Join(kept, <<" ">>))

\* --------------------------------------------------------------- documents

\* A document as fitz shows it: [author, toc, pages], author the 'author' of
\* its metadata or NoneValue, toc the titles of its embedded outline, pages
\* the text get_text() gives for each page, lines ending in a line break.

\* text.split('\n')
RECURSIVE SplitLinesFrom(_, _)
SplitLinesFrom(text, line) ==
  IF text = <<>> THEN <<line>>
  ELSE IF Head(text) = "\n" THEN <<line>> \o SplitLinesFrom(Tail(text), <<>>)
  ELSE SplitLinesFrom(Tail(text), Append(line, Head(text)))

SplitLines(text) == SplitLinesFrom(text, <<>>)

\* The elements of a sequence of sequences, one after the other.
RECURSIVE Flatten(_)
Flatten(seqs) == IF seqs = <<>> THEN <<>> ELSE Head(seqs) \o Flatten(Tail(seqs))

\* The first n elements, all of them when there are fewer: range(min(n, len)).
Take(seq, n) == SubSeq(seq, 1, IF Len(seq) < n THEN Len(seq) ELSE n)

\* ------------------------------------------------------ extraction stages

\* max_pages and top_n of extract_keywords, max_pages of
\* extract_fallback_bookmarks, and the page range of extract_metadata.
KeywordMaxPages == 15
top_n == 15
FallbackMaxPages == 10
MetadataMaxPages == 5

excluded_keywords ==
  {Chars("copyright"), Chars("introduction"), Chars("author"), Chars("summary"),
   Chars("glossary"), Chars("disclaimer"), Chars("page"), Chars("note"),
   Chars("contents"), Chars("table"), Chars("index"), Chars("preface"),
   Chars("authors"), Chars("foreword"), Chars("appendix"), Chars("the"),
   Chars("this"), Chars("that"), Chars("about"), Chars("than"), Chars("from"),
   Chars("publisher"), Chars("thanks"), Chars("neither"), Chars("through"),
   Chars("extracted")}

\* The elements of a sequence without their repeats, in order of first use.
RECURSIVE Distinct(_, _)
Distinct(seq, seen) ==
  IF seq = <<>> THEN <<>>
  ELSE IF Head(seq) \in seen THEN Distinct(Tail(seq), seen)
  ELSE <<Head(seq)>> \o Distinct(Tail(seq), seen \cup {Head(seq)})

CountOf(w, seq) == Cardinality({k \in DOMAIN seq : seq[k] = w})

\* One word put behind every word that is at least as frequent.
RECURSIVE InsertByCount(_, _, _)
InsertByCount(w, ranked, seq) ==
  IF ranked = <<>> THEN <<w>>
  ELSE IF CountOf(Head(ranked), seq) >= CountOf(w, seq)
  THEN <<Head(ranked)>> \o InsertByCount(w, Tail(ranked), seq)
  ELSE <<w>> \o ranked

\* Counter(seq).most_common(n): by falling count, equal counts in order of
\* first use.
RECURSIVE RankFrom(_, _, _)
RankFrom(words, ranked, seq) ==
  IF words = <<>> THEN ranked
  ELSE RankFrom(Tail(words), InsertByCount(Head(words), ranked, seq), seq)

most_common(seq, n) == Take(RankFrom(Distinct(seq, {}), <<>>, seq), n)

\* log_error(pdf_path, message): one line appended.
LogLine(pdf_path, message) == [path |-> pdf_path, message |-> message]

\* extract_keywords(pdf_path): [value, log]; failed says the stage raised.
extract_keywords(pdf_path, doc, failed, english) ==
  IF failed
  THEN [value |-> <<>>,
        log |-> <<LogLine(pdf_path, "Keyword extraction failed")>>]
  ELSE
    LET full_text == Flatten(Take(doc.pages, KeywordMaxPages))
        words == Split(Lower(LettersAndBlanks(full_text)))
        filtered == SelectSeq(words, LAMBDA w :
                      Len(w) > 5 /\ w \notin excluded_keywords
                        /\ is_english(w, english))
    IN [value |-> Title(Join(most_common(filtered, top_n), <<",", " ">>)),
        log |-> <<>>]

\* extract_bookmarks(pdf_path): [has_bm, bookmarks, log].
extract_bookmarks(pdf_path, doc, failed) ==
  IF failed
  THEN [has_bm |-> FALSE, bookmarks |-> <<>>,
        log |-> <<LogLine(pdf_path, "Bookmark extraction failed")>>]
  ELSE IF doc.toc # <<>>
  THEN [has_bm |-> TRUE,
        bookmarks |-> [k \in DOMAIN doc.toc |-> Upper(doc.toc[k])],
        log |-> <<>>]
  ELSE [has_bm |-> FALSE, bookmarks |-> <<>>, log |-> <<>>]

\* The text a kept line is looked through for.
ContentWord == Chars("Content")

\* The lines of one page that extract_fallback_bookmarks keeps.
FallbackLines(text, english) ==
  LET lines == [k \in DOMAIN SplitLines(text) |->
                  clean_text(SplitLines(text)[k], english)]
  IN SelectSeq(lines, LAMBDA line :
       line # <<>> /\ (Contains(line, ContentWord) \/ Len(Split(line)) > 2))

\* extract_fallback_bookmarks(pdf_path): [bookmarks, log]; failed says
\* fitz.open raised, so that no page was read.
extract_fallback_bookmarks(pdf_path, doc, failed, english) ==
  IF failed
  THEN [bookmarks |-> <<>>,
        log |-> <<LogLine(pdf_path, "Fallback TOC failed")>>]
  ELSE LET pages == Take(doc.pages, FallbackMaxPages)
       IN [bookmarks |-> Flatten([k \in DOMAIN pages |->
                                    FallbackLines(pages[k], english)]),
           log |-> <<>>]

\* output_image_dir, and the extension of a preview image
JpgExt == Chars(".jpg")
output_image_dir == Chars("preview_images")

\* f"{index:04d}": the decimal digits, zero-filled to four.
RECURSIVE ZeroFill(_, _)
ZeroFill(text, width) ==
  IF Len(text) >= width THEN text ELSE ZeroFill(<<"0">> \o text, width)

\* An extract_first_page_image that returns None when it fails.
extract_first_page_image_none(pdf_path, index, doc, failed) ==
  IF failed \/ doc.pages = <<>>
  THEN [value |-> NoneValue,
        log |-> <<LogLine(pdf_path, "Image generation failed")>>]
  ELSE [value |-> output_image_dir \o <<"/">> \o ZeroFill(Dec(index), 4)
                    \o JpgExt,
        log |-> <<>>]

\* extract_first_page_image(pdf_path, output_dir, index): [value, log];
\* load_page(0) raises on a document of no page.
extract_first_page_image(pdf_path, index, doc, failed) ==
  IF failed \/ doc.pages = <<>>
  THEN [value |-> <<>>,
        log |-> <<LogLine(pdf_path, "Image generation failed")>>]
  ELSE [value |-> output_image_dir \o <<"/">> \o ZeroFill(Dec(index), 4)
                    \o JpgExt,
        log |-> <<>>]

\* The placeholders of extract_metadata.
NotEmbedded == Chars("Not embedded in this file")
MissingFromMetadata == Chars("Missing from PDF metadata")

\* No match of a regular expression.
NoMatch == <<"NoMatch">>

AllDigits(tok) == tok # <<>> /\ \A k \in DOMAIN tok : IsDigit(tok[k])

\* The year pattern on one run of characters between blanks: four digits
\* that start with 19 or 20, a word of their own.
IsYear(tok) ==
  /\ Len(tok) = 4
  /\ AllDigits(tok)
  /\ SubSeq(tok, 1, 2) \in {<<"1", "9">>, <<"2", "0">>}

\* group(1) of re.search with the year pattern on the text of a page: its
\* first year.
YearMatch(text) ==
  LET toks == SelectSeq(Split(text), IsYear)
  IN IF toks = <<>> THEN NoMatch ELSE toks[1]

\* The identifier pattern on one run of digits: a match from four digits on.
IsIsbnShape(tok) == AllDigits(tok) /\ Len(tok) >= 4 /\ Len(tok) <= 20

\* group(1) of re.search with the identifier pattern on the text of a page
\* whose runs of digits are kept apart by words: the first run it matches.
IsbnMatch(text) ==
  LET toks == SelectSeq(Split(text), IsIsbnShape)
  IN IF toks = <<>> THEN NoMatch ELSE toks[1]

\* re.sub(r'[-\s]', '', raw_isbn)
CleanIsbn(raw) == SelectSeq(raw, LAMBDA c : c # "-" /\ ~IsSpace(c))

\* The loop of extract_metadata from page k on: each page's year match is
\* assigned to year, and the loop is left only by an accepted identifier.
RECURSIVE MetadataLoop(_, _, _)
MetadataLoop(pages, k, year) ==
  IF k > Len(pages) THEN [year |-> year, isbn |-> MissingFromMetadata]
  ELSE
    LET year_match == YearMatch(pages[k])
        year2 == IF year_match # NoMatch THEN year_match ELSE year
        isbn_match == IsbnMatch(pages[k])
        cleaned_isbn == CleanIsbn(isbn_match)
    IN IF isbn_match # NoMatch /\ Len(cleaned_isbn) >= 10
            /\ ~IsYear(cleaned_isbn)
       THEN [year |-> year2, isbn |-> cleaned_isbn]
       ELSE MetadataLoop(pages, k + 1, year2)

\* extract_metadata(doc, pdf_path): [raised, author, year, isbn, log], by
\* how reading the document goes:
\*   "ok"         nothing raises
\*   "caught"     a page raises, after author is bound: the handler returns
\*   "propagated" doc.metadata raises, before author is bound: the
\*                handler's own author.title() raises out of the function
extract_metadata(doc, pdf_path, outcome) ==
  LET author == IF doc.author = NoneValue \/ doc.author = <<>>
                THEN NotEmbedded ELSE doc.author
      failedLog == <<LogLine(pdf_path, "Metadata fallback failed")>>
  IN IF outcome = "propagated"
     THEN [raised |-> TRUE, author |-> NoneValue, year |-> NoneValue,
           isbn |-> NoneValue, log |-> failedLog]
     ELSE IF outcome = "caught"
     THEN [raised |-> FALSE, author |-> Title(author),
           year |-> MissingFromMetadata, isbn |-> MissingFromMetadata,
           log |-> failedLog]
     ELSE LET found == MetadataLoop(Take(doc.pages, MetadataMaxPages), 1,
                                    MissingFromMetadata)
          IN [raised |-> FALSE, author |-> Title(author),
              year |-> found.year, isbn |-> found.isbn, log |-> <<>>]

\* ------------------------------------------------------------- process_pdf

\* Path(full_path).suffix: from the last dot of the name, unless that dot
\* is the first or the last character or there is none.
Suffix(path) ==
  LET name == BaseName(path)
      dots == {k \in 1..Len(name) : name[k] = "."}
  IN IF dots = {} THEN <<>>
     ELSE LET last == CHOOSE k \in dots : \A m \in dots : m <= k
          IN IF last > 1 /\ last < Len(name)
             THEN SubSeq(name, last, Len(name)) ELSE <<>>

\* Path(full_path).parent.name
ParentName(path) == path[Len(path) - 1]

\* The Read Status of a new row.
Unread == Chars("Unread")

\* The fields of a row.
RowFields ==
  {"Index", "FileName", "Year", "ISBN", "PageCount", "Author", "Section",
   "AbsolutePath", "HasBookmarks", "TableOfContents", "PreviewImage",
   "ReadStatus", "Keywords", "Description"}

\* The fields of a row that hold text.
TextFields ==
  {"FileName", "Year", "ISBN", "Author", "Section", "TableOfContents",
   "PreviewImage", "ReadStatus", "Keywords", "Description"}

\* The words the pages of the model are written with.
Vocabulary ==
  {Chars("Contents"), Chars("contents"), Chars("Table"), Chars("table"),
   Chars("chapter"), Chars("one"), Chars("begins"), Chars("published")}

\* How the stages of one document go, as process_pdf meets them:
\*   meta     "ok" | "caught" | "propagated"   extract_metadata
\*   bm, fb, img, kw   "ok" | "fail"           the stage raises or not
\*   english  the words the language detector takes for English
StageOutcomes ==
  [meta : {"ok", "caught", "propagated"}, bm : {"ok", "fail"},
   fb : {"ok", "fail"}, img : {"ok", "fail"}, kw : {"ok", "fail"},
   english : {Vocabulary, Vocabulary \ {Chars("one")}}]

\* The stage outcomes the batch scan is explored with.
ScanOutcomes ==
  {o \in StageOutcomes :
     /\ o.english = Vocabulary
     /\ \/ o.meta = "ok" /\ o.bm = "ok" /\ o.fb = "ok" /\ o.img = "ok"
           /\ o.kw = "ok"
        \/ o.meta = "caught" /\ o.bm = "fail" /\ o.fb = "fail"
           /\ o.img = "fail" /\ o.kw = "fail"
        \/ o.meta = "propagated" /\ o.bm = "ok" /\ o.fb = "ok"
           /\ o.img = "ok" /\ o.kw = "ok"}

NoRow == [f \in RowFields |-> NoneValue]

\* process_pdf(job) on a file [state, doc, ...] with stage outcomes o:
\* [ok, row, log, opened, fallback], ok = FALSE standing for the None it
\* returns, fallback telling whether extract_fallback_bookmarks was called.
process_pdf(job, file, o) ==
  LET full_path == job.full_path
      doc == file.doc
      none == [ok |-> FALSE, row |-> NoRow, log |-> <<>>, opened |-> FALSE,
               fallback |-> FALSE]
  IN
  IF file.state = "missing" \/ Lower(Suffix(full_path)) # PdfExt
  THEN none
  ELSE IF file.state = "corrupt"
  THEN [none EXCEPT !.log = <<LogLine(full_path, "PDF open failed")>>]
  ELSE
    LET meta == extract_metadata(doc, full_path, o.meta) IN
    IF meta.raised
    THEN [none EXCEPT
            !.log = meta.log \o <<LogLine(full_path, "PDF open failed")>>,
            !.opened = TRUE]
    ELSE
      LET pages == Len(doc.pages)
          bm == extract_bookmarks(full_path, doc, o.bm = "fail")
          fb == IF ~bm.has_bm
                THEN extract_fallback_bookmarks(full_path, doc,
                                                o.fb = "fail", o.english)
                ELSE [bookmarks |-> bm.bookmarks, log |-> <<>>]
          bookmarks_clean == Join(fb.bookmarks, <<";", " ">>)
          image == extract_first_page_image(full_path, job.index, doc,
                                            o.img = "fail")
          keywords == extract_keywords(full_path, doc, o.kw = "fail",
                                       o.english)
      IN [ok |-> TRUE,
          row |-> [Index |-> job.index,
                   FileName |-> BaseName(full_path),
                   Year |-> meta.year,
                   ISBN |-> meta.isbn,
                   PageCount |-> pages,
                   Author |-> meta.author,
                   Section |-> ParentName(full_path),
                   AbsolutePath |-> full_path,
                   HasBookmarks |-> bm.has_bm,
                   TableOfContents |-> bookmarks_clean,
                   PreviewImage |-> image.value,
                   ReadStatus |-> Unread,
                   Keywords |-> keywords.value,
                   Description |-> <<>>],
          log |-> meta.log \o bm.log \o fb.log \o image.log \o keywords.log,
          opened |-> TRUE,
          fallback |-> ~bm.has_bm]

\* str(x).title() over the text columns of one row: a path's separators are
\* uncased, so each component is title-cased on its own.
TitleRow(row) ==
  [f \in DOMAIN row |->
     IF f \in TextFields THEN Title(row[f])
     ELSE IF f = "AbsolutePath"
     THEN [k \in DOMAIN row[f] |-> Title(row[f][k])]
     ELSE row[f]]

\* ------------------------------------------------------ fingerprint store

\* The ways a write can end: done, refused before the file is touched, or
\* broken off with the file already truncated.
WriteOutcomes == {"ok", "refused", "truncated"}

\* A file after one write of content, by how the write ended.
Written(file, content, outcome) ==
  CASE outcome = "ok" -> [state |-> "valid", rows |-> content]
    [] outcome = "refused" -> file
    [] outcome = "truncated" -> [state |-> "corrupt", rows |-> <<>>]

AbsentFile == [state |-> "absent", rows |-> <<>>]
CorruptFile == [state |-> "corrupt", rows |-> <<>>]

\* load_cache(): [kind, data]; kind = "exception" when json.load raises.
load_cache ==
  IF cacheFile.state # "absent"
  THEN IF cacheFile.state = "valid"
       THEN [kind |-> "ok", data |-> cacheFile.rows]
       ELSE [kind |-> "exception", data |-> {}]
  ELSE [kind |-> "ok", data |-> {}]

\* save_cache(cache): [file, raised] by how the write ends.
save_cache(cacheArg, outcome) ==
  [file |-> IF outcome = "ok" THEN [state |-> "valid", rows |-> cacheArg]
            ELSE IF outcome = "refused" THEN cacheFile
            ELSE [state |-> "corrupt", rows |-> {}],
   raised |-> outcome # "ok"]

\* ------------------------------------------------------------- persistence

\* One value of a text column, as pandas holds it: a string, an integer, a
\* float or NaN.
StrCell(s) == [t |-> "str", s |-> s, n |-> 0]
IntCell(n) == [t |-> "int", s |-> <<>>, n |-> n]
FloatCell(n) == [t |-> "float", s |-> <<>>, n |-> n]
NanCell == [t |-> "nan", s |-> <<>>, n |-> 0]

\* The field of one cell as to_csv writes it.
CsvText(cell) ==
  CASE cell.t = "str" -> cell.s
    [] cell.t = "int" -> Dec(cell.n)
    [] cell.t = "nan" -> <<>>

IsDigits(text) ==
  text # <<>> /\ \A k \in DOMAIN text : Ord(text[k]) >= 48 /\ Ord(text[k]) <= 57

\* int(text) for a text of digits.
RECURSIVE ParseInt(_)
ParseInt(text) ==
  IF text = <<>> THEN 0
  ELSE 10 * ParseInt(SubSeq(text, 1, Len(text) - 1)) + (Ord(text[Len(text)]) - 48)

\* pd.read_csv on one column of fields: an integer column when every field
\* is digits, a float column when every field is digits or empty, a column
\* of strings otherwise; an empty field is NaN.
CsvColumn(texts) ==
  IF \A k \in DOMAIN texts : IsDigits(texts[k])
  THEN [k \in DOMAIN texts |-> IntCell(ParseInt(texts[k]))]
  ELSE IF \A k \in DOMAIN texts : texts[k] = <<>> \/ IsDigits(texts[k])
  THEN [k \in DOMAIN texts |->
          IF texts[k] = <<>> THEN NanCell ELSE FloatCell(ParseInt(texts[k]))]
  ELSE [k \in DOMAIN texts |->
          IF texts[k] = <<>> THEN NanCell ELSE StrCell(texts[k])]

\* df.to_csv followed by pd.read_csv, on a catalog of [Index, Year] rows.
CsvRoundTrip(rows) ==
  LET index == CsvColumn([k \in DOMAIN rows |-> CsvText(rows[k].Index)])
      year == CsvColumn([k \in DOMAIN rows |-> CsvText(rows[k].Year)])
  IN [k \in DOMAIN rows |-> [Index |-> index[k], Year |-> year[k]]]

\* A save_data with both writes in one try: a failed Feather write skips the
\* CSV write.
save_data_one_try(df, featherOutcome, csvOutcome) ==
  [feather |-> Written(featherFile, df, featherOutcome),
   csv |-> IF featherOutcome = "ok" THEN Written(csvFile, df, csvOutcome)
           ELSE csvFile,
   attempted |-> IF featherOutcome = "ok" THEN {"Feather", "CSV"}
                 ELSE {"Feather"},
   raised |-> FALSE]

\* save_data(df, folder_path) by how its two writes end:
\* [feather, csv, attempted, raised]. Each write sits in its own try.
save_data(df, featherOutcome, csvOutcome) ==
  [feather |-> Written(featherFile, df, featherOutcome),
   csv |-> Written(csvFile, df, csvOutcome),
   attempted |-> {"Feather", "CSV"},
   raised |-> FALSE]

\* load_data(folder_path): [kind, rows, format]; kind = "exception" when the
\* call raises. Only the Feather read sits in a try.
load_data ==
  IF featherFile.state # "absent" /\ featherFile.state = "valid"
  THEN [kind |-> "ok", rows |-> featherFile.rows, format |-> "Feather"]
  ELSE IF csvFile.state # "absent"
  THEN IF csvFile.state = "valid"
       THEN [kind |-> "ok", rows |-> CsvRoundTrip(csvFile.rows), format |-> "CSV"]
       ELSE [kind |-> "exception", rows |-> <<>>, format |-> ""]
  ELSE [kind |-> "ok", rows |-> <<>>, format |-> "None"]

\* export_to_csv(results): the text columns title-cased, then one write that
\* is in no try: [file, rows, raised], rows being the frame it wrote from.
export_to_csv(results, outcome) ==
  LET df == [k \in DOMAIN results |-> TitleRow(results[k])]
  IN [file |-> Written(exportFile, df, outcome), rows |-> df,
      raised |-> outcome # "ok"]

\* ---------------------------------------------------------------- start_scan

\* unlock_after of start_scan.
unlock_after == 1

\* A file that fitz cannot open shows no document.
NoDocument == [author |-> NoneValue, toc |-> <<>>, pages |-> <<>>]

\* The document every readable file of a scanned tree holds: an author, an
\* outline of one title, one page.
ScanDocument ==
  [author |-> Chars("jane doe"), toc |-> <<Chars("Intro")>>,
   pages |-> <<Chars("Contents") \o <<"\n">> \o Chars("chapter one begins")
                 \o <<"\n">> \o Chars("published 2015") \o <<"\n">> >>]

\* The documents a scanned tree holds when the scan starts.
FileKinds ==
  {[state |-> "valid", size |-> MaxSize, mtime |-> MaxTicks,
    doc |-> ScanDocument],
   [state |-> "corrupt", size |-> 0, mtime |-> 1, doc |-> NoDocument]}

\* The trees the batch scan is explored on: any listing of the root, and a
\* subdirectory that is empty or holds one document.
ScanTrees ==
  {<<[dirpath |-> RootPath, files |-> l1], [dirpath |-> SubA, files |-> l2]>> :
     l1 \in Listings, l2 \in {<<>>, <<NameA>>}}

\* What an earlier scan left in the fingerprint store.
StaleStore == {[rel_path |-> <<NameA>>, fingerprint |-> Fingerprint(NameA, 1, 0)]}

CacheFiles ==
  {[state |-> "absent", rows |-> {}], [state |-> "corrupt", rows |-> {}],
   [state |-> "valid", rows |-> StaleStore]}

NoResult == [kind |-> "none", rows |-> <<>>]
NotSaved ==
  [called |-> FALSE, df |-> <<>>, featherOutcome |-> "", csvOutcome |-> "",
   attempted |-> {}, raised |-> FALSE]
NotLoaded == [kind |-> "none", rows |-> <<>>, format |-> ""]
Raised == [kind |-> "exception", rows |-> <<>>]

NoStages ==
  [meta |-> "", bm |-> "", fb |-> "", img |-> "", kw |-> "", english |-> {}]
NotExtracted ==
  [ok |-> FALSE, row |-> NoRow, log |-> <<>>, opened |-> FALSE,
   fallback |-> FALSE]
NoUsageFile == [state |-> "absent", content |-> <<>>]
NoUsage ==
  [calls |-> 0, permitted |-> 0, refused |-> 0, first |-> NoUsageFile]

\* No usage file, and no call of check_usage yet.
UsageIdle ==
  /\ usageFile = NoUsageFile
  /\ usage = NoUsage

\* No extraction on its own has run, nor the usage gate.
GateIdle ==
  /\ document = NoDocument
  /\ stages = NoStages
  /\ extracted = NotExtracted
  /\ UsageIdle

\* Nothing of a scan has run yet.
ScanIdle ==
  /\ pc = "idle"
  /\ cache = [kind |-> "none", data |-> {}]
  /\ jobs = <<>>
  /\ i = 0
  /\ processed = <<>>
  /\ new_cache = {}
  /\ progress = <<>>
  /\ errlog = <<>>
  /\ result = NoResult
  /\ opened = {}
  /\ scanned = <<>>
  /\ saved = NotSaved
  /\ loaded = NotLoaded

InitScan ==
  /\ tree \in ScanTrees
  /\ files \in [{j.full_path : j \in
                   {JobsOfWalk(RootPath, tree, 1)[k] :
                      k \in DOMAIN JobsOfWalk(RootPath, tree, 1)}} -> FileKinds]
  /\ cacheFile \in CacheFiles
  /\ featherFile = AbsentFile
  /\ csvFile = AbsentFile
  /\ exportFile = AbsentFile
  /\ ScanIdle
  /\ GateIdle

\* start_scan up to its loop: load_cache, find_pdfs_to_process.
StartScan ==
  /\ pc = "idle"
  /\ LET c == load_cache IN
       IF c.kind = "exception"
       THEN /\ pc' = "raised"
            /\ cache' = c
            /\ result' = Raised
            /\ UNCHANGED <<jobs, i>>
       ELSE /\ cache' = c
            /\ jobs' = find_pdfs_to_process(RootPath, c.data)
            /\ i' = 1
            /\ pc' = IF jobs' = <<>> THEN "finish" ELSE "process"
            /\ UNCHANGED result
  /\ UNCHANGED sideVars
  /\ UNCHANGED gateVars
  /\ UNCHANGED <<tree, files, cacheFile, featherFile, csvFile, exportFile,
                 processed, new_cache, progress, errlog, opened>>

\* One turn of the loop, first half: process_pdf(job), the row kept and the
\* progress callback made when there is a row.
ProcessJob ==
  /\ pc = "process"
  /\ \E o \in ScanOutcomes :
       LET job == jobs[i]
           total_jobs == Len(jobs)
           r == process_pdf(job, files[job.full_path], o)
       IN /\ errlog' = errlog \o r.log
          /\ opened' = IF r.opened THEN opened \cup {i} ELSE opened
          /\ processed' = IF r.ok THEN Append(processed, r.row) ELSE processed
          /\ progress' = IF r.ok /\ (i % unlock_after = 0 \/ i = total_jobs)
                         THEN Append(progress, <<i, total_jobs>>)
                         ELSE progress
  /\ pc' = "stat"
  /\ UNCHANGED sideVars
  /\ UNCHANGED gateVars
  /\ UNCHANGED <<tree, files, cacheFile, featherFile, csvFile, exportFile,
                 cache, jobs, i, new_cache, result>>

\* One turn of the loop, second half: os.stat(job[1]), in no try, and the
\* fingerprint of the file put under its relative path.
StatJob ==
  /\ pc = "stat"
  /\ LET job == jobs[i]
         stat == files[job.full_path]
     IN IF stat.state = "missing"
        THEN /\ pc' = "raised"
             /\ result' = Raised
             /\ UNCHANGED <<new_cache, i>>
        ELSE /\ new_cache' = DictPut(new_cache, job.rel_path,
                                     Fingerprint(BaseName(job.full_path),
                                                 stat.size, stat.mtime))
             /\ i' = i + 1
             /\ pc' = IF i = Len(jobs) THEN "finish" ELSE "process"
             /\ UNCHANGED result
  /\ UNCHANGED sideVars
  /\ UNCHANGED gateVars
  /\ UNCHANGED <<tree, files, cacheFile, featherFile, csvFile, exportFile,
                 cache, jobs, processed, progress, errlog, opened>>

\* The file of the job at hand is removed by someone else while the scan
\* runs, after discovery.
RemoveFile ==
  /\ pc \in {"process", "stat"}
  /\ files[jobs[i].full_path].state # "missing"
  /\ files' = [files EXCEPT ![jobs[i].full_path].state = "missing"]
  /\ UNCHANGED sideVars
  /\ UNCHANGED gateVars
  /\ UNCHANGED <<tree, cacheFile, featherFile, csvFile, exportFile, pc, cache,
                 jobs, i, processed, new_cache, progress, errlog, result, opened>>

\* start_scan after its loop. pd.DataFrame(results) inside export_to_csv
\* shares its columns with df in some pandas versions and copies them in
\* others, so df is left either title-cased or as collected.
FinishScan ==
  /\ pc = "finish"
  /\ IF processed # <<>>
     THEN \E cacheOutcome \in WriteOutcomes, exportOutcome \in WriteOutcomes,
             featherOutcome \in WriteOutcomes, csvOutcome \in WriteOutcomes,
             shared \in BOOLEAN :
            LET sc == save_cache(new_cache, cacheOutcome)
                ex == export_to_csv(processed, exportOutcome)
                df == IF shared THEN ex.rows ELSE processed
                sd == save_data(df, featherOutcome, csvOutcome)
            IN /\ cacheFile' = sc.file
               /\ exportFile' = IF sc.raised THEN exportFile ELSE ex.file
               /\ featherFile' = IF sc.raised \/ ex.raised THEN featherFile
                                 ELSE sd.feather
               /\ csvFile' = IF sc.raised \/ ex.raised THEN csvFile ELSE sd.csv
               /\ IF sc.raised \/ ex.raised \/ sd.raised
                  THEN pc' = "raised" /\ result' = Raised
                  ELSE pc' = "done" /\ result' = [kind |-> "df", rows |-> df]
     ELSE /\ pc' = "done"
          /\ result' = [kind |-> "df", rows |-> <<>>]
          /\ UNCHANGED <<cacheFile, exportFile, featherFile, csvFile>>
  /\ UNCHANGED sideVars
  /\ UNCHANGED gateVars
  /\ UNCHANGED <<tree, files, cache, jobs, i, processed, new_cache, progress,
                 errlog, opened>>

Next == StartScan \/ ProcessJob \/ StatJob \/ RemoveFile \/ FinishScan

Spec == InitScan /\ [][Next]_vars

\* ------------------------------------------------------ claims on the scan

\* The number of lines of the error log written for one document.
LogCount(path) == Cardinality({k \in DOMAIN errlog : errlog[k].path = path})

\* The jobs opened among the first n.
OpenedUpTo(n) == {j \in opened : j <= n}

\* C1: whatever fails per job or in the fingerprint-state file, start_scan
\* processes every discovered job and returns a catalog: it never ends by
\* raising.
C1_ScanNeverRaises ==
  /\ pc # "raised"
  /\ result.kind # "exception"
  /\ pc = "done" => i = Len(jobs) + 1 /\ result.kind = "df"

\* C2: after start_scan over N jobs of which K open, the catalog has exactly
\* K rows, the opened jobs in discovery order under their discovery Index,
\* and every job whose document could not be opened has no row and exactly
\* one line in the error log.
C2_RowsAndLogPerJob ==
  pc = "done" =>
    /\ Len(result.rows) = Cardinality(opened)
    /\ \A k \in DOMAIN result.rows :
         /\ result.rows[k].Index \in opened
         /\ Cardinality(OpenedUpTo(result.rows[k].Index)) = k
    /\ \A j \in DOMAIN jobs :
         j \notin opened =>
           /\ \A k \in DOMAIN result.rows : result.rows[k].Index # j
           /\ LogCount(jobs[j].full_path) = 1

\* C3, in the case it names of a last job that failed: the callback was made
\* once per opened document, in order and with total = N, and then once more
\* with current = total = N.
C3_ProgressThenCompletion ==
  (pc = "done" /\ jobs # <<>> /\ Len(jobs) \notin opened) =>
    /\ Len(progress) = Cardinality(opened) + 1
    /\ \A k \in 1..Cardinality(opened) :
         /\ progress[k][2] = Len(jobs)
         /\ progress[k][1] \in opened
         /\ Cardinality(OpenedUpTo(progress[k][1])) = k
    /\ progress[Len(progress)] = <<Len(jobs), Len(jobs)>>

\* C7: load_cache never fails its caller, and returns the empty mapping when
\* the state file is absent and when it is there but cannot be parsed.
C7_LoadCacheNeverFails ==
  /\ cache.kind # "exception"
  /\ (pc \in {"process", "stat", "finish"} /\ cacheFile.state # "valid")
       => (cache.kind = "ok" /\ cache.data = {})

\* The store a scan of the discovered jobs computes: one entry per job, the
\* fingerprint of the file as it is on disk.
FreshStore ==
  {[rel_path |-> jobs[j].rel_path,
    fingerprint |-> Fingerprint(BaseName(jobs[j].full_path),
                                files[jobs[j].full_path].size,
                                files[jobs[j].full_path].mtime)] :
     j \in DOMAIN jobs}

\* C8: at the end of every completed scan of at least one job, rows or no
\* rows, the persisted fingerprint store holds exactly one freshly computed
\* entry per discovered job, whatever it held before.
C8_StoreRewrittenEveryScan ==
  (pc = "done" /\ jobs # <<>>) =>
    /\ cacheFile.state = "valid"
    /\ cacheFile.rows = FreshStore
    /\ Cardinality(cacheFile.rows) = Len(jobs)

\* C15: the catalog a completed scan returns, the one it gave save_data to
\* write, has every text column in title case and no missing value.
C15_CatalogNormalized ==
  (pc = "done" /\ result.rows # <<>>) =>
    /\ \A k \in DOMAIN result.rows :
         /\ result.rows[k] = TitleRow(result.rows[k])
         /\ \A f \in TextFields : result.rows[k][f] # NoneValue
    /\ featherFile.state = "valid" => featherFile.rows = result.rows
    /\ csvFile.state = "valid" => csvFile.rows = result.rows

\* ---------------------------------------------------------------- discovery

\* The listings of at most one entry.
ShortListings == {l \in Listings : Len(l) <= 1}

\* The trees discovery is explored on: a root and two subdirectories, which
\* os.walk yields after the root in either order.
Trees ==
  {<<[dirpath |-> RootPath, files |-> l1], [dirpath |-> d[1], files |-> l2],
     [dirpath |-> d[2], files |-> l3]>> :
     l1 \in Listings, l2 \in Listings, l3 \in ShortListings,
     d \in {<<SubA, SubB>>, <<SubB, SubA>>}}

InitDiscover ==
  /\ tree \in Trees
  /\ files = <<>>
  /\ cacheFile = AbsentFile
  /\ featherFile = AbsentFile
  /\ csvFile = AbsentFile
  /\ exportFile = AbsentFile
  /\ ScanIdle
  /\ GateIdle

\* find_pdfs_to_process(root, cache) called with some cache contents.
Discover ==
  /\ pc = "idle"
  /\ \E c \in {{}, StaleStore} :
       /\ cache' = [kind |-> "ok", data |-> c]
       /\ jobs' = find_pdfs_to_process(RootPath, c)
  /\ pc' = "discovered"
  /\ UNCHANGED sideVars
  /\ UNCHANGED gateVars
  /\ UNCHANGED <<tree, files, cacheFile, featherFile, csvFile, exportFile, i,
                 processed, new_cache, progress, errlog, result, opened>>

NextDiscover == Discover

SpecDiscover == InitDiscover /\ [][NextDiscover]_vars

\* A name that ends in ".pdf" in any mix of cases.
EndsInPdf(name) ==
  /\ Len(name) >= 4
  /\ name[Len(name) - 3] = "."
  /\ name[Len(name) - 2] \in {"p", "P"}
  /\ name[Len(name) - 1] \in {"d", "D"}
  /\ name[Len(name)] \in {"f", "F"}

\* a comes before b in lexicographic order of code points.
CodePointBefore(a, b) ==
  \E p \in 1..Len(b) :
    /\ \A q \in 1..(p - 1) : q <= Len(a) /\ a[q] = b[q]
    /\ \/ p = Len(a) + 1
       \/ p <= Len(a) /\ Ord(a[p]) < Ord(b[p])

\* The place in the traversal of the directory a path lies in.
DirPlace(path) ==
  CHOOSE d \in DOMAIN tree : tree[d].dirpath = SubSeq(path, 1, Len(path) - 1)

\* The documents of the tree: the paths of the entries that end in ".pdf".
Documents ==
  UNION {{PathJoin(tree[d].dirpath, tree[d].files[k]) :
            k \in {q \in DOMAIN tree[d].files : EndsInPdf(tree[d].files[q])}} :
         d \in DOMAIN tree}

\* C10: whatever the tree and the cache, the jobs carry the Index values
\* 1, 2, 3, ... in order, there is exactly one job per entry whose name ends
\* case-insensitively in ".pdf" and none for any other, the directories come
\* in traversal order and the files of one directory in ascending
\* lexicographic order of their names.
C10_IndexAndOrder ==
  pc = "discovered" =>
    /\ \A k \in DOMAIN jobs : jobs[k].index = k
    /\ {jobs[k].full_path : k \in DOMAIN jobs} = Documents
    /\ Len(jobs) = Cardinality(Documents)
    /\ \A k, m \in DOMAIN jobs :
         k < m =>
           /\ DirPlace(jobs[k].full_path) <= DirPlace(jobs[m].full_path)
           /\ DirPlace(jobs[k].full_path) = DirPlace(jobs[m].full_path)
                => CodePointBefore(BaseName(jobs[k].full_path),
                                   BaseName(jobs[m].full_path))

\* Discovery has run on a tree whose root lists a.pdf before B.PDF, which
\* sorting swaps, and that holds an entry that is no document.
C10_Witness ==
  /\ pc = "discovered"
  /\ Len(tree[1].files) >= 2
  /\ tree[1].files[1] = NameA
  /\ tree[1].files[2] = NameB
  /\ tree[2].files = <<NameT, NameDot>>
  /\ Len(jobs) = 3
  /\ BaseName(jobs[1].full_path) = NameB

\* ------------------------------------------------- a file scanned twice

\* The stats a present file can have.
FileStats ==
  [state : {"valid"}, size : 0..MaxSize, mtime : 0..MaxTicks]

\* One document in the root of the tree, in any state of size and time.
InitFingerprint ==
  /\ \E name \in {NameA, NameB} :
       /\ tree = <<[dirpath |-> RootPath, files |-> <<name>>]>>
       /\ files \in [{PathJoin(RootPath, name)} -> FileStats]
  /\ cacheFile = AbsentFile
  /\ featherFile = AbsentFile
  /\ csvFile = AbsentFile
  /\ exportFile = AbsentFile
  /\ ScanIdle
  /\ GateIdle

\* The fingerprint lines of start_scan's loop on the one job of the tree:
\* os.stat, the fingerprint, new_cache[rel_path]. A scan starts from an empty
\* new_cache.
ScanFile ==
  /\ pc \in {"idle", "changed"}
  /\ LET job == find_pdfs_to_process(RootPath, {})[1]
         stat == files[job.full_path]
         fp == Fingerprint(BaseName(job.full_path), stat.size, stat.mtime)
     IN /\ new_cache' = DictPut({}, job.rel_path, fp)
        /\ scanned' = Append(scanned, [size |-> stat.size, mtime |-> stat.mtime,
                                       fingerprint |-> fp])
  /\ pc' = IF pc = "idle" THEN "scanned" ELSE "rescanned"
  /\ UNCHANGED <<tree, files, cacheFile, featherFile, csvFile, exportFile,
                 cache, jobs, i, processed, progress, errlog, result, opened,
                 saved, loaded>>
  /\ UNCHANGED gateVars

\* Between two scans the file is left alone, touched or rewritten.
ChangeFile ==
  /\ pc = "scanned"
  /\ \E st \in FileStats :
       files' = [p \in DOMAIN files |-> st]
  /\ pc' = "changed"
  /\ UNCHANGED <<tree, cacheFile, featherFile, csvFile, exportFile, cache, jobs,
                 i, processed, new_cache, progress, errlog, result, opened,
                 scanned, saved, loaded>>
  /\ UNCHANGED gateVars

NextFingerprint == ScanFile \/ ChangeFile

SpecFingerprint == InitFingerprint /\ [][NextFingerprint]_vars

\* C9 as stated: the same size and time give the same fingerprint, and any
\* change of size or of modification time, however small, gives another.
C9_AnyChangeDetected ==
  \A a, b \in DOMAIN scanned :
    /\ (scanned[a].size = scanned[b].size /\ scanned[a].mtime = scanned[b].mtime)
         => scanned[a].fingerprint = scanned[b].fingerprint
    /\ (scanned[a].size # scanned[b].size \/ scanned[a].mtime # scanned[b].mtime)
         => scanned[a].fingerprint # scanned[b].fingerprint

\* C9 amended: the fingerprints of two scans of a file are the same exactly
\* when its size and the whole seconds of its modification time are the
\* same; a change of time within one second, the size kept, goes unseen.
C9_WholeSecondChangeDetected ==
  \A a, b \in DOMAIN scanned :
    (scanned[a].fingerprint = scanned[b].fingerprint)
      <=> /\ scanned[a].size = scanned[b].size
          /\ \E sec \in 0..MaxTicks :
               /\ sec * TicksPerSecond <= scanned[a].mtime
               /\ scanned[a].mtime < (sec + 1) * TicksPerSecond
               /\ sec * TicksPerSecond <= scanned[b].mtime
               /\ scanned[b].mtime < (sec + 1) * TicksPerSecond

\* The file was scanned, rewritten from 1 byte to 11 with its time one
\* second on, and scanned again.
C9_Witness ==
  /\ Len(scanned) = 2
  /\ scanned[1].size = 1
  /\ scanned[2].size = 11
  /\ scanned[2].mtime = scanned[1].mtime + TicksPerSecond
  /\ scanned[1].fingerprint # scanned[2].fingerprint

\* --------------------------------------------------- save_data, load_data

\* The texts a cell of the Year column is drawn from: empty, a word, digits
\* with a leading zero.
YearTexts == {<<>>, <<"A">>, <<"0", "7">>}

\* The catalogs of n rows: row k has Index k and any Year.
CatalogsOf(n) ==
  {[k \in 1..n |-> [Index |-> IntCell(k), Year |-> StrCell(y[k])]] :
     y \in [1..n -> YearTexts]}

\* The catalogs save_data is given.
Catalogs == UNION {CatalogsOf(n) : n \in 0..(MaxRows + 1)}

\* What the location can hold of either file before a call: nothing, a file
\* that cannot be read, or a catalog saved earlier.
FilesBefore ==
  {AbsentFile, CorruptFile}
    \cup {[state |-> "valid", rows |-> c] : c \in UNION {CatalogsOf(n) : n \in 0..MaxRows}}

InitPersist ==
  /\ tree = <<>>
  /\ files = <<>>
  /\ cacheFile = AbsentFile
  /\ featherFile \in FilesBefore
  /\ csvFile \in FilesBefore
  /\ exportFile = AbsentFile
  /\ ScanIdle
  /\ GateIdle

\* save_data(df, folder_path), each write ending in any way.
SaveData ==
  /\ pc = "idle"
  /\ \E df \in Catalogs, featherOutcome \in WriteOutcomes,
        csvOutcome \in WriteOutcomes :
       LET sd == save_data(df, featherOutcome, csvOutcome)
       IN /\ featherFile' = sd.feather
          /\ csvFile' = sd.csv
          /\ saved' = [called |-> TRUE, df |-> df,
                       featherOutcome |-> featherOutcome,
                       csvOutcome |-> csvOutcome,
                       attempted |-> sd.attempted, raised |-> sd.raised]
  /\ pc' = "saved"
  /\ UNCHANGED <<tree, files, cacheFile, exportFile, cache, jobs, i, processed,
                 new_cache, progress, errlog, result, opened, scanned, loaded>>
  /\ UNCHANGED gateVars

\* load_data(folder_path), on the location as found or after a save.
LoadData ==
  /\ pc \in {"idle", "saved"}
  /\ loaded' = load_data
  /\ pc' = "loaded"
  /\ UNCHANGED <<tree, files, cacheFile, featherFile, csvFile, exportFile,
                 cache, jobs, i, processed, new_cache, progress, errlog, result,
                 opened, scanned, saved>>
  /\ UNCHANGED gateVars

NextPersist == SaveData \/ LoadData

SpecPersist == InitPersist /\ [][NextPersist]_vars

\* C4: load_data never fails its caller: a readable snapshot is returned as
\* "Feather"; with the snapshot absent or unreadable a readable backup is
\* returned as "CSV"; with neither there or readable the catalog is empty
\* and the format "None".
C4_LoadNeverFails ==
  /\ loaded.kind # "exception"
  /\ pc = "loaded" =>
       /\ loaded.kind = "ok"
       /\ featherFile.state = "valid"
            => (loaded.format = "Feather" /\ loaded.rows = featherFile.rows)
       /\ (featherFile.state # "valid" /\ csvFile.state = "valid")
            => loaded.format = "CSV"
       /\ (featherFile.state # "valid" /\ csvFile.state # "valid")
            => (loaded.format = "None" /\ loaded.rows = <<>>)

\* C5: save_data attempts both writes whatever becomes of either and never
\* raises: a write that ends well leaves its file holding the catalog even
\* when the other write failed.
C5_BothWritesAttempted ==
  saved.called =>
    /\ ~saved.raised
    /\ saved.attempted = {"Feather", "CSV"}
    /\ saved.featherOutcome = "ok"
         => featherFile = [state |-> "valid", rows |-> saved.df]
    /\ saved.csvOutcome = "ok"
         => csvFile = [state |-> "valid", rows |-> saved.df]

\* A catalog of two rows was saved over an older snapshot; the snapshot
\* write broke off and the backup was written all the same.
C5_Witness ==
  /\ pc = "saved"
  /\ saved.called
  /\ Len(saved.df) = 2
  /\ saved.featherOutcome = "truncated"
  /\ featherFile.state = "corrupt"
  /\ saved.csvOutcome = "ok"
  /\ csvFile = [state |-> "valid", rows |-> saved.df]

\* C6, for a save that wrote its text backup at a location that then holds
\* a readable snapshot: what load_data returns next is the catalog just
\* saved, row for row and field for field, and no older one.
C6_RoundTrip ==
  (pc = "loaded" /\ saved.called /\ saved.csvOutcome = "ok"
     /\ featherFile.state = "valid") =>
    /\ loaded.kind = "ok"
    /\ Len(loaded.rows) = Len(saved.df)
    /\ loaded.rows = saved.df

\* ------------------------------------------- one document through process_pdf

\* Largest number of pages of a document process_pdf is run on.
MaxPages == 2

\* The pages such a document is made of: a contents page with a heading and
\* a line of three words, and a page whose lines clean_text leaves too short.
ContentsPage ==
  Chars("Contents") \o <<"\n">> \o Chars("chapter one begins") \o <<"\n">>
ShortPage == Chars("Table of") \o <<"\n">> \o Chars("2001") \o <<"\n">>

\* The documents process_pdf is run on: with and without an author, with and
\* without an embedded outline, of 0 to MaxPages pages.
ExtractDocuments ==
  [author : {NoneValue, Chars("jane doe")},
   toc : {<<>>, <<Chars("Intro"), Chars("Part two")>>},
   pages : UNION {[1..n -> {ContentsPage, ShortPage}] : n \in 0..MaxPages}]

\* The job of that document: the seventh of a scan, in subdirectory A.
ExtractJob ==
  [index |-> 7, full_path |-> PathJoin(SubA, NameA),
   rel_path |-> RelPath(PathJoin(SubA, NameA), RootPath)]

InitExtract ==
  /\ tree = <<[dirpath |-> SubA, files |-> <<NameA>>]>>
  /\ \E d \in ExtractDocuments, st \in {"valid", "corrupt"} :
       /\ document = IF st = "valid" THEN d ELSE NoDocument
       /\ files = [p \in {ExtractJob.full_path} |->
                     [state |-> st, size |-> 1, mtime |-> 0,
                      doc |-> document]]
  /\ cacheFile = AbsentFile
  /\ featherFile = AbsentFile
  /\ csvFile = AbsentFile
  /\ exportFile = AbsentFile
  /\ ScanIdle
  /\ stages = NoStages
  /\ extracted = NotExtracted
  /\ UsageIdle

\* process_pdf(job) on the document, its stages going in any way.
Extract ==
  /\ pc = "idle"
  /\ \E o \in StageOutcomes :
       /\ stages' = o
       /\ extracted' = process_pdf(ExtractJob, files[ExtractJob.full_path], o)
  /\ pc' = "extracted"
  /\ UNCHANGED sideVars
  /\ UNCHANGED <<tree, files, cacheFile, featherFile, csvFile, exportFile,
                 cache, jobs, i, processed, new_cache, progress, errlog,
                 result, opened, document, usageFile, usage>>

NextExtract == Extract

SpecExtract == InitExtract /\ [][NextExtract]_vars

\* Whether a stage wrote its line into the error log of the extraction.
Logged(message) ==
  \E k \in DOMAIN extracted.log : extracted.log[k].message = message

\* A value that is a text: a sequence of characters.
IsText(v) == v # NoneValue /\ \A k \in DOMAIN v : v[k] \in DOMAIN CodePoints

\* C11: a row that process_pdf returns has all fourteen fields, each with a
\* value, whichever of the outline, keyword and thumbnail stages failed: a
\* failed thumbnail or keyword stage leaves the empty string, a failed
\* outline stage false; Page Count is a non-negative integer, Read Status
\* "Unread" and Description empty.
C11_RowComplete ==
  (pc = "extracted" /\ extracted.ok) =>
    LET row == extracted.row IN
    /\ DOMAIN row = RowFields
    /\ \A f \in TextFields : IsText(row[f])
    /\ row.AbsolutePath # NoneValue
    /\ row.Index \in Nat
    /\ row.PageCount \in Nat
    /\ row.PageCount = Len(document.pages)
    /\ row.HasBookmarks \in BOOLEAN
    /\ stages.img = "fail" => row.PreviewImage = <<>>
    /\ stages.kw = "fail" => row.Keywords = <<>>
    /\ stages.bm = "fail" => row.HasBookmarks = FALSE
    /\ row.ReadStatus = Unread
    /\ row.Description = <<>>

\* A document of two pages gave a row although its outline, fallback,
\* thumbnail and keyword stages all failed.
C11_Witness ==
  /\ pc = "extracted"
  /\ extracted.ok
  /\ stages.bm = "fail" /\ stages.fb = "fail"
  /\ stages.img = "fail" /\ stages.kw = "fail"
  /\ extracted.row.PageCount = 2
  /\ extracted.row.PreviewImage = <<>>
  /\ extracted.row.TableOfContents = <<>>
  /\ Len(extracted.log) = 4

\* The entries of a Table of Contents: the texts between its "; ".
RECURSIVE EntriesFrom(_, _)
EntriesFrom(text, entry) ==
  IF text = <<>> THEN <<entry>>
  ELSE IF Len(text) >= 2 /\ text[1] = ";" /\ text[2] = " "
  THEN <<entry>> \o EntriesFrom(SubSeq(text, 3, Len(text)), <<>>)
  ELSE EntriesFrom(Tail(text), Append(entry, Head(text)))

TocEntries(text) == IF text = <<>> THEN <<>> ELSE EntriesFrom(text, <<>>)

\* The lines of the pages of the document, each as clean_text leaves it.
CleanedLines ==
  UNION {{clean_text(SplitLines(document.pages[p])[l], stages.english) :
            l \in DOMAIN SplitLines(document.pages[p])} :
         p \in DOMAIN document.pages}

\* C12: a row of a document with no embedded outline never has Has
\* Bookmarks true, every entry of its Table of Contents is a cleaned line of
\* its pages, not empty, that holds "Content" or more than 2 words; and for
\* a document with an embedded outline the fallback scan is not used.
C12_FallbackOnlyWithoutOutline ==
  (pc = "extracted" /\ extracted.ok) =>
    LET row == extracted.row
        entries == TocEntries(row.TableOfContents)
    IN /\ document.toc = <<>> =>
            /\ row.HasBookmarks = FALSE
            /\ \A k \in DOMAIN entries :
                 /\ entries[k] # <<>>
                 /\ entries[k] \in CleanedLines
                 /\ \/ Contains(entries[k], ContentWord)
                    \/ Len(Split(entries[k])) > 2
       /\ document.toc # <<>> => ~extracted.fallback

\* C13: whenever an exception is raised while the metadata of an opened
\* document is extracted, it is logged and the job returns no result.
C13_MetadataFailureDropsJob ==
  (pc = "extracted" /\ extracted.opened /\ stages.meta # "ok") =>
    /\ Logged("Metadata fallback failed")
    /\ ~extracted.ok

\* C16: when reading the embedded outline raises, the error is logged, the
\* job still gives a row, and the Table of Contents of that row is empty.
C16_OutlineFailureLeavesNoEntries ==
  (pc = "extracted" /\ Logged("Bookmark extraction failed")) =>
    /\ extracted.ok
    /\ extracted.row.HasBookmarks = FALSE
    /\ extracted.row.TableOfContents = <<>>

\* ------------------------------------------ one document's extract_metadata

\* Largest number of pages of a document extract_metadata is run on: one
\* more than it reads.
MaxMetadataPages == 6

\* The pages such a document is made of: no text, a year, another year
\* behind its marker, an identifier behind its label.
BlankPage == <<"\n">>
YearPage == Chars("2001") \o <<"\n">>
LaterYearPage == Chars("published 2015") \o <<"\n">>
IsbnPage == Chars("isbn 0306406152") \o <<"\n">>

MetadataDocuments ==
  [author : {Chars("jane doe")}, toc : {<<>>},
   pages : UNION {[1..n -> {BlankPage, YearPage, LaterYearPage, IsbnPage}] :
                    n \in 0..MaxMetadataPages}]

InitMetadata ==
  /\ tree = <<[dirpath |-> SubA, files |-> <<NameA>>]>>
  /\ document \in MetadataDocuments
  /\ files = [p \in {ExtractJob.full_path} |->
                [state |-> "valid", size |-> 1, mtime |-> 0, doc |-> document]]
  /\ cacheFile = AbsentFile
  /\ featherFile = AbsentFile
  /\ csvFile = AbsentFile
  /\ exportFile = AbsentFile
  /\ ScanIdle
  /\ stages = NoStages
  /\ extracted = NotExtracted
  /\ UsageIdle

\* extract_metadata(doc, pdf_path) on the opened document, going in any way.
ExtractMetadata ==
  /\ pc = "idle"
  /\ \E outcome \in {"ok", "caught", "propagated"} :
       /\ stages' = [NoStages EXCEPT !.meta = outcome]
       /\ extracted' = extract_metadata(document, ExtractJob.full_path, outcome)
  /\ pc' = "metadata"
  /\ UNCHANGED sideVars
  /\ UNCHANGED <<tree, files, cacheFile, featherFile, csvFile, exportFile,
                 cache, jobs, i, processed, new_cache, progress, errlog,
                 result, opened, document, usageFile, usage>>

NextMetadata == ExtractMetadata

SpecMetadata == InitMetadata /\ [][NextMetadata]_vars

\* The pages extract_metadata looks at: the first five at most, and none
\* behind the page that gives it an identifier of ten characters or more.
InspectedPages ==
  LET pages == Take(document.pages, MetadataMaxPages)
      hits == {k \in DOMAIN pages :
                 /\ IsbnMatch(pages[k]) # NoMatch
                 /\ Len(CleanIsbn(IsbnMatch(pages[k]))) >= 10}
  IN IF hits = {} THEN pages
     ELSE SubSeq(pages, 1, CHOOSE k \in hits : \A m \in hits : k <= m)

\* C14: the Year extract_metadata returns is the year of the first of the
\* inspected pages that has one, whatever years the later pages hold and
\* wherever an identifier is found; with no such page it is the placeholder.
C14_FirstYearWins ==
  (pc = "metadata" /\ stages.meta = "ok") =>
    LET withYear == {k \in DOMAIN InspectedPages :
                       YearMatch(InspectedPages[k]) # NoMatch}
    IN IF withYear = {} THEN extracted.year = MissingFromMetadata
       ELSE extracted.year =
              YearMatch(InspectedPages[CHOOSE k \in withYear :
                                         \A m \in withYear : k <= m])

\* ------------------------------------------------- sys_cache: the usage gate

MAX_USES == 15
SECRET_KEY == 106

\* Largest number of calls of check_usage in one run of the model.
MaxCalls == 17

\* a ^ b on two bytes.
RECURSIVE BitXor(_, _)
BitXor(a, b) ==
  IF a = 0 /\ b = 0 THEN 0
  ELSE (((a % 2) + (b % 2)) % 2) + 2 * BitXor(a \div 2, b \div 2)

\* xor_encrypt_decrypt(data, key)
xor_encrypt_decrypt(data, key) == [k \in DOMAIN data |-> BitXor(data[k], key)]

\* The base64 alphabet, the character of value v at place v + 1.
Base64Alphabet == UpperLetters \o LowerLetters \o Digits \o <<"+", "/">>

Base64Char(v) == Base64Alphabet[v + 1]

\* base64.b64encode(data): three bytes to four characters, a last group of
\* one or two bytes filled up with "=".
RECURSIVE b64encode(_)
b64encode(data) ==
  IF data = <<>> THEN <<>>
  ELSE IF Len(data) = 1
  THEN <<Base64Char(data[1] \div 4), Base64Char((data[1] % 4) * 16), "=", "=">>
  ELSE IF Len(data) = 2
  THEN <<Base64Char(data[1] \div 4),
         Base64Char((data[1] % 4) * 16 + data[2] \div 16),
         Base64Char((data[2] % 16) * 4), "=">>
  ELSE <<Base64Char(data[1] \div 4),
         Base64Char((data[1] % 4) * 16 + data[2] \div 16),
         Base64Char((data[2] % 16) * 4 + data[3] \div 64),
         Base64Char(data[3] % 64)>>
       \o b64encode(SubSeq(data, 4, Len(data)))

\* The bytes of a group of characters cut short by its padding.
PartialBytes(quad) ==
  IF Len(quad) = 2 THEN <<quad[1] * 4 + quad[2] \div 16>>
  ELSE <<quad[1] * 4 + quad[2] \div 16, (quad[2] % 16) * 16 + quad[3] \div 4>>

\* base64.b64decode(encoded) from a place on, with the group of characters
\* begun, the padding seen and the bytes decoded so far: [ok, data]. A character
\* outside the alphabet is passed over; padding that completes a group ends
\* the decoding; a group left incomplete is an error.
RECURSIVE DecodeFrom(_, _, _, _)
DecodeFrom(encoded, quad, pads, data) ==
  IF encoded = <<>>
  THEN [ok |-> quad = <<>>, data |-> data]
  ELSE
    LET c == Head(encoded) IN
    IF c = "="
    THEN IF Len(quad) >= 2 /\ Len(quad) + pads + 1 >= 4
         THEN [ok |-> TRUE, data |-> data \o PartialBytes(quad)]
         ELSE DecodeFrom(Tail(encoded), quad,
                         IF Len(quad) >= 2 THEN pads + 1 ELSE pads, data)
    ELSE IF IndexOf(c, Base64Alphabet) = 0
    THEN DecodeFrom(Tail(encoded), quad, pads, data)
    ELSE
      LET q == Append(quad, IndexOf(c, Base64Alphabet) - 1) IN
      IF Len(q) = 4
      THEN DecodeFrom(Tail(encoded), <<>>, 0,
                      data \o <<q[1] * 4 + q[2] \div 16,
                                (q[2] % 16) * 16 + q[3] \div 4,
                                (q[3] % 4) * 64 + q[4]>>)
      ELSE DecodeFrom(Tail(encoded), q, 0, data)

\* Whether int(data.decode()) gives a number, for the contents the model
\* uses: the bytes are decimal digits, one at least.
IsIntText(data) ==
  data # <<>> /\ \A k \in DOMAIN data : data[k] >= 48 /\ data[k] <= 57

\* int(data.decode()) on decimal digits.
RECURSIVE IntOf(_)
IntOf(data) ==
  IF data = <<>> THEN 0
  ELSE 10 * IntOf(SubSeq(data, 1, Len(data) - 1)) + (data[Len(data)] - 48)

\* save_usage(count): the file it writes, raw being str(count).encode(), the
\* code points of the decimal digits.
save_usage(count) ==
  LET raw == [k \in DOMAIN Dec(count) |-> Ord(Dec(count)[k])]
  IN [state |-> "present",
      content |-> b64encode(xor_encrypt_decrypt(raw, SECRET_KEY))]

\* load_usage() on the file as it is.
load_usage(file) ==
  IF file.state = "absent" THEN 0
  ELSE LET encrypted == DecodeFrom(file.content, <<>>, 0, <<>>)
           decrypted == xor_encrypt_decrypt(encrypted.data, SECRET_KEY)
       IN IF encrypted.ok /\ IsIntText(decrypted) THEN IntOf(decrypted)
          ELSE MAX_USES + 1

\* A check_usage that lets the call through until the count passes MAX_USES.
check_usage_off_by_one(file) ==
  LET count == load_usage(file)
  IN IF count > MAX_USES
     THEN [permitted |-> FALSE, file |-> file]
     ELSE [permitted |-> TRUE, file |-> save_usage(count + 1)]

\* check_usage() on the file as it is: [permitted, file], permitted = FALSE
\* standing for the exit().
check_usage(file) ==
  LET count == load_usage(file)
  IN IF count >= MAX_USES
     THEN [permitted |-> FALSE, file |-> file]
     ELSE [permitted |-> TRUE, file |-> save_usage(count + 1)]

\* Contents of a usage file that someone else wrote: nothing, one character,
\* four characters that give no digits, a group cut short, no base64 at all.
TamperedContents ==
  {<<>>, <<"A">>, Chars("abcd"), Chars("Wg="), Chars("!!!!")}

\* A run starts from no usage file, from one an earlier run left, or from
\* one someone else wrote.
InitUsage ==
  /\ tree = <<>>
  /\ files = <<>>
  /\ cacheFile = AbsentFile
  /\ featherFile = AbsentFile
  /\ csvFile = AbsentFile
  /\ exportFile = AbsentFile
  /\ ScanIdle
  /\ document = NoDocument
  /\ stages = NoStages
  /\ extracted = NotExtracted
  /\ usageFile \in
       {NoUsageFile}
         \cup {save_usage(n) : n \in 1..MAX_USES}
         \cup {[state |-> "present", content |-> c] : c \in TamperedContents}
  /\ usage = [NoUsage EXCEPT !.first = usageFile]

\* One start of the application: check_usage(), its write going through.
CheckUsage ==
  /\ usage.calls < MaxCalls
  /\ LET r == check_usage(usageFile)
     IN /\ usageFile' = r.file
        /\ usage' = [usage EXCEPT
                       !.calls = @ + 1,
                       !.permitted = IF r.permitted THEN @ + 1 ELSE @,
                       !.refused = IF r.permitted THEN @ ELSE @ + 1]
  /\ UNCHANGED sideVars
  /\ UNCHANGED <<tree, files, cacheFile, featherFile, csvFile, exportFile, pc,
                 cache, jobs, i, processed, new_cache, progress, errlog,
                 result, opened, document, stages, extracted>>

NextUsage == CheckUsage

SpecUsage == InitUsage /\ [][NextUsage]_vars

\* C17: from no usage file, the first MAX_USES calls of check_usage are let
\* through, each leaving the stored count one higher, and every call after
\* them is refused and leaves the file as it is, so that the stored count
\* never passes MAX_USES; a file that does not decode to an integer makes
\* every call be refused.
C17_UsageGate ==
  /\ usage.first = NoUsageFile =>
       /\ usage.permitted = IF usage.calls < MAX_USES THEN usage.calls
                            ELSE MAX_USES
       /\ usage.refused = usage.calls - usage.permitted
       /\ usage.calls = 0 => usageFile = NoUsageFile
       /\ usage.calls > 0 =>
            /\ usageFile = save_usage(usage.permitted)
            /\ load_usage(usageFile) = usage.permitted
       /\ load_usage(usageFile) <= MAX_USES
  /\ (usage.first.state = "present"
        /\ usage.first.content \in TamperedContents) =>
       /\ usage.permitted = 0
       /\ usageFile = usage.first

\* From no usage file, seventeen calls: fifteen let through, two refused,
\* and the file holds the encoding of 15.
C17_Witness ==
  /\ usage.first = NoUsageFile
  /\ usage.calls = 17
  /\ usage.permitted = 15
  /\ usage.refused = 2
  /\ usageFile.content = Chars("W18=")

====
